---------------------------- MODULE Spec2Model ----------------------------
(***************************************************************************)
(* Policy evaluation for prSigstoreSigned                                  *)
(* (signature/policy_eval_sigstore.go).                                    *)
(*                                                                         *)
(* The module models                                                       *)
(*   - loadBytesFromDataOrPath, prSigstoreSignedFulcio.prepareTrustRoot    *)
(*     and prSigstoreSigned.prepareTrustRoot as operators,                 *)
(*   - prSigstoreSigned.isSignatureAccepted as an operator that returns    *)
(*     the Go result together with a record of what the call did,          *)
(*   - prSigstoreSigned.isRunningImageAllowed as a state machine with one  *)
(*     step per loop iteration.                                            *)
(*                                                                         *)
(* Values.  A []byte is a string; NilData is the nil slice and "" the      *)
(* empty, non-nil slice.  A Go string is a string.  A pointer is a         *)
(* sequence of length 0 (nil) or 1.  An error is a record [type, text]     *)
(* whose text is the list of the fragments the message is made of; NoErr   *)
(* is the nil error.                                                       *)
(***************************************************************************)
EXTENDS Integers, Sequences, FiniteSets, TLC

VARIABLES
    pr,         \* the policy requirement (receiver of every method)
    image,      \* what image.UntrustedSignatures returns: [sigs, err]
    pc,         \* position of the call being modelled
    sigs,       \* isRunningImageAllowed: the retrieved signatures
    i,          \* isRunningImageAllowed: index of the next signature
    rejections, \* isRunningImageAllowed: rejections
    foundNonSigstoreSignatures,
    foundSigstoreNonAttachments,
    routed,     \* the isSignatureAccepted calls made so far, in call order
    ret,        \* what isRunningImageAllowed returned: [allowed, err]
    tr,         \* what prepareTrustRoot returned (builder specification)
    sig,        \* the signature given to isSignatureAccepted (router specification)
    lastRes     \* what isSignatureAccepted returned (router specification)

vars == <<pr, image, pc, sigs, i, rejections, foundNonSigstoreSignatures,
          foundSigstoreNonAttachments, routed, ret, tr, sig, lastRes>>

-----------------------------------------------------------------------------
(* Bounds *)

\* Longest KeyPaths / KeyDatas list of a policy requirement.
MaxKeys == 2
\* Most signatures attached to an image.
MaxSigs == 3

SeqUpTo(S, n) == UNION {[1..k -> S] : k \in 0..n}

-----------------------------------------------------------------------------
(* Errors *)

NoErr == [type |-> "nil", text |-> <<>>]
\* errors.New / fmt.Errorf
Errorf(text) == [type |-> "error", text |-> text]
\* fmt.Errorf("...: %w", err)
Wrap(prefix, err) == [type |-> "error", text |-> <<prefix>> \o err.text]
PolicyRequirementError(text) == [type |-> "PolicyRequirementError", text |-> text]

-----------------------------------------------------------------------------
(* Environment: the file system and the parsers the builder calls *)

NilData == "<nil>"
NilKey == "<nil key>"

\* The files that exist, with their contents.
Files ==
    ("k1.pub" :> "PEM:k1") @@ ("k2.pub" :> "PEM:k2") @@ ("bad.pem" :> "garbage")
    @@ ("ca.pem" :> "PEM:ca") @@ ("rekor.pub" :> "PEM:rk")

\* os.ReadFile
ReadFile(path) ==
    IF path \in DOMAIN Files
    THEN [data |-> Files[path], err |-> NoErr]
    ELSE [data |-> NilData,
          err |-> [type |-> "PathError",
                   text |-> <<"open ", path, ": no such file or directory">>]]

\* The PEM blocks that hold a public key, with the key.  "rsa" is a key
\* that is not an *ecdsa.PublicKey.
PEMKeys ==
    ("PEM:k1" :> "k1") @@ ("PEM:k2" :> "k2") @@ ("PEM:rk" :> "rk")
    @@ ("PEM:rsa" :> "rsa")

\* cryptoutils.UnmarshalPEMToPublicKey
UnmarshalPEMToPublicKey(pem) ==
    IF pem \in DOMAIN PEMKeys
    THEN [key |-> PEMKeys[pem], err |-> NoErr]
    ELSE [key |-> NilKey, err |-> Errorf(<<"PEM decoding failed">>)]

\* pk.(*ecdsa.PublicKey)
IsECDSA(pk) == pk \in {"k1", "k2", "rk", "kc"}

\* x509.CertPool.AppendCertsFromPEM
AppendCertsFromPEM(pem) == pem = "PEM:ca"

-----------------------------------------------------------------------------
(* loadBytesFromDataOrPath *)

\* A plausible slip: the path wins when both are given.
loadBytesFromDataOrPath_PathWins(prefix, data, path) ==
    CASE path # "" ->
           LET r == ReadFile(path)
           IN  IF r.err # NoErr THEN [data |-> NilData, err |-> r.err]
               ELSE [data |-> r.data, err |-> NoErr]
      [] data # NilData -> [data |-> data, err |-> NoErr]
      [] OTHER -> [data |-> NilData, err |-> NoErr]

loadBytesFromDataOrPath(prefix, data, path) ==
    CASE data # NilData /\ path # "" ->
           [data |-> NilData,
            err |-> Errorf(<<"Internal inconsistency: both \"", prefix,
                             "Path\" and \"", prefix, "Data\" specified">>)]
      [] path # "" ->
           LET r == ReadFile(path)
           IN  IF r.err # NoErr THEN [data |-> NilData, err |-> r.err]
               ELSE [data |-> r.data, err |-> NoErr]
      [] data # NilData -> [data |-> data, err |-> NoErr]
      [] OTHER -> [data |-> NilData, err |-> NoErr]

\* One loader call, as the builder's result remembers it.
LoadCall(prefix, data, path) ==
    [prefix |-> prefix, data |-> data, path |-> path,
     res |-> loadBytesFromDataOrPath(prefix, data, path)]

-----------------------------------------------------------------------------
(* prSigstoreSignedFulcio.prepareTrustRoot *)

\* fulcioTrustRoot.validate: the issuer and subject constraints come together.
fulcioValidate(fulcio) ==
    IF (fulcio.oidcIssuer = "") # (fulcio.subjectEmail = "")
    THEN Errorf(<<"Internal inconsistency: Fulcio use set up without OIDC issuer or subject email">>)
    ELSE NoErr

\* The result is [fulcio, err, loads]: fulcio is a pointer, loads the loader
\* calls made.
Fulcio_prepareTrustRoot(f) ==
    LET call == LoadCall("fulcioCA", f.CAData, f.CAPath)
        caCertBytes == call.res.data
        fulcio == [caCertificates |-> caCertBytes,
                   oidcIssuer |-> f.OIDCIssuer,
                   subjectEmail |-> f.SubjectEmail]
        fail(e) == [fulcio |-> <<>>, err |-> e, loads |-> <<call>>]
    IN  IF call.res.err # NoErr THEN fail(call.res.err)
        ELSE IF caCertBytes = NilData
        THEN fail(Errorf(<<"Internal inconsistency: Fulcio specified with neither \"caPath\" nor \"caData\"">>))
        ELSE IF ~AppendCertsFromPEM(caCertBytes)
        THEN fail(Errorf(<<"error loading Fulcio CA certificates">>))
        ELSE IF fulcioValidate(fulcio) # NoErr THEN fail(fulcioValidate(fulcio))
        ELSE [fulcio |-> <<fulcio>>, err |-> NoErr, loads |-> <<call>>]

-----------------------------------------------------------------------------
(* prSigstoreSigned.prepareTrustRoot *)

\* A plausible slip: the singular path is added to the list.
keyPathsOf_Merged(p) ==
    IF p.KeyPath # "" THEN <<p.KeyPath>> \o p.KeyPaths ELSE p.KeyPaths

keyPathsOf(p) ==
    IF p.KeyPath # "" THEN <<p.KeyPath>> ELSE p.KeyPaths

keyDatasOf(p) ==
    IF p.KeyData # NilData /\ p.KeyData # "" THEN <<p.KeyData>> ELSE p.KeyDatas

\* The loop over keyPaths: [keys, err], stopping at the first failure.
RECURSIVE loadKeyPaths(_)
loadKeyPaths(keyPaths) ==
    IF keyPaths = <<>> THEN [keys |-> <<>>, err |-> NoErr]
    ELSE LET r == ReadFile(Head(keyPaths))
             u == UnmarshalPEMToPublicKey(r.data)
             rest == loadKeyPaths(Tail(keyPaths))
         IN  IF r.err # NoErr THEN [keys |-> <<>>, err |-> r.err]
             ELSE IF r.data # NilData
             THEN IF u.err # NoErr
                  THEN [keys |-> <<>>, err |-> Wrap("parsing public key: ", u.err)]
                  ELSE IF rest.err # NoErr THEN rest
                  ELSE [keys |-> <<u.key>> \o rest.keys, err |-> NoErr]
             ELSE rest

\* The loop over keyDatas.
RECURSIVE parseKeyDatas(_)
parseKeyDatas(keyDatas) ==
    IF keyDatas = <<>> THEN [keys |-> <<>>, err |-> NoErr]
    ELSE LET u == UnmarshalPEMToPublicKey(Head(keyDatas))
             rest == parseKeyDatas(Tail(keyDatas))
         IN  IF u.err # NoErr
             THEN [keys |-> <<>>, err |-> Wrap("parsing public key: ", u.err)]
             ELSE IF rest.err # NoErr THEN rest
             ELSE [keys |-> <<u.key>> \o rest.keys, err |-> NoErr]

\* (*sigstoreSignedTrustRoot)(nil)
NilTrustRoot == <<>>

\* The result is [root, err, loads]: root is a pointer to
\* [publicKeys, fulcio, rekorPublicKey], loads the loader calls made.
prepareTrustRoot(p) ==
    LET keyPaths == keyPathsOf(p)
        keyDatas == keyDatasOf(p)
        fromPaths == loadKeyPaths(keyPaths)
        fromDatas == parseKeyDatas(keyDatas)
        pks == fromPaths.keys \o fromDatas.keys
        f == IF p.Fulcio # <<>> THEN Fulcio_prepareTrustRoot(p.Fulcio[1])
             ELSE [fulcio |-> <<>>, err |-> NoErr, loads |-> <<>>]
        call == LoadCall("rekorPublicKey", p.RekorPublicKeyData, p.RekorPublicKeyPath)
        rekorPublicKeyPEM == call.res.data
        u == UnmarshalPEMToPublicKey(rekorPublicKeyPEM)
        fail(e, loads) == [root |-> NilTrustRoot, err |-> e, loads |-> loads]
    IN  IF Len(keyDatas) > 0 /\ Len(keyPaths) > 0
        THEN fail(Errorf(<<"Too many key sources are specified">>), <<>>)
        ELSE IF fromPaths.err # NoErr THEN fail(fromPaths.err, <<>>)
        ELSE IF fromDatas.err # NoErr THEN fail(fromDatas.err, <<>>)
        ELSE IF f.err # NoErr THEN fail(f.err, f.loads)
        ELSE IF call.res.err # NoErr THEN fail(call.res.err, f.loads \o <<call>>)
        ELSE IF rekorPublicKeyPEM # NilData /\ u.err # NoErr
        THEN fail(Wrap("parsing Rekor public key: ", u.err), f.loads \o <<call>>)
        ELSE IF rekorPublicKeyPEM # NilData /\ ~IsECDSA(u.key)
        THEN fail(Errorf(<<"Rekor public key is not using ECDSA">>), f.loads \o <<call>>)
        ELSE [root |-> <<[publicKeys |-> pks,
                          fulcio |-> f.fulcio,
                          rekorPublicKey |->
                              IF rekorPublicKeyPEM # NilData THEN u.key ELSE NilKey]>>,
              err |-> NoErr,
              loads |-> f.loads \o <<call>>]

-----------------------------------------------------------------------------
(* Signatures and the verifiers isSignatureAccepted calls *)

\* signature.SigstoreSignatureMIMEType and the annotation keys
SigstoreSignatureMIMEType == "application/vnd.dev.cosign.simplesigning.v1+json"
SigstoreSignatureAnnotationKey == "dev.cosignproject.cosign/signature"
SigstoreSETAnnotationKey == "dev.sigstore.cosign/bundle"
SigstoreCertificateAnnotationKey == "dev.sigstore.cosign/certificate"
SigstoreIntermediateCertificateChainAnnotationKey == "dev.sigstore.cosign/chain"

AnnotationKeys ==
    {SigstoreSignatureAnnotationKey, SigstoreSETAnnotationKey,
     SigstoreCertificateAnnotationKey, SigstoreIntermediateCertificateChainAnnotationKey}

sarAccepted == "sarAccepted"
sarRejected == "sarRejected"
sarUnknown == "sarUnknown"

(***************************************************************************)
(* An untrusted signature s is                                             *)
(*   kind         "sigstore" (a signature.Sigstore) or "other"             *)
(*   mime         UntrustedMIMEType()                                      *)
(*   annotations  the keys of UntrustedAnnotations()                       *)
(* and what the verifiers answer for its contents:                         *)
(*   rekorOK      the public keys for which VerifyRekorSET accepts its SET *)
(*   certKey      the key of its certificate when verifyRekorFulcio        *)
(*                accepts it, NilKey otherwise                             *)
(*   signedBy     the key its payload signature verifies under, or "none"  *)
(*   claims       what the two acceptance rules find in its payload        *)
(***************************************************************************)
ClaimsOutcomes ==
    {"ok", "refMismatch", "manifestErr", "digestErr", "digestMismatch", "nodata"}

SET_Err == [type |-> "InvalidSignatureError", text |-> <<"rekor SET verification failed">>]
FulcioErr == [type |-> "InvalidSignatureError", text |-> <<"Fulcio certificate verification failed">>]
CryptoErr == [type |-> "InvalidSignatureError", text |-> <<"cryptographic signature verification failed">>]
ManifestErr == [type |-> "context", text |-> <<"context canceled">>]
DigestErr == [type |-> "digest", text |-> <<"unsupported digest algorithm">>]

MissingAnnotation(key) == Errorf(<<"missing ", key, " annotation">>)

\* cryptoutils.MarshalPublicKeyToPEM: a key that was parsed from PEM has a
\* PEM encoding.
MarshalPublicKeyToPEM(pk) ==
    IF \E pem \in DOMAIN PEMKeys : PEMKeys[pem] = pk
    THEN [pem |-> CHOOSE pem \in DOMAIN PEMKeys : PEMKeys[pem] = pk, err |-> NoErr]
    ELSE [pem |-> NilData, err |-> Errorf(<<"marshaling to ASN1.DER failed">>)]

\* internal.VerifyRekorSET for the key whose PEM encoding is publicKeyPEM
VerifyRekorSET(rekorPublicKey, s, publicKeyPEM) ==
    IF publicKeyPEM \in DOMAIN PEMKeys /\ PEMKeys[publicKeyPEM] \in s.rekorOK
    THEN NoErr ELSE SET_Err

\* verifyRekorFulcio: [pk, err]
verifyRekorFulcio(rekorPublicKey, fulcio, s) ==
    IF s.certKey # NilKey THEN [pk |-> s.certKey, err |-> NoErr]
    ELSE [pk |-> NilKey, err |-> FulcioErr]

\* The closure passed as ValidateSignedDockerReference
ValidateSignedDockerReference(s) ==
    IF s.claims = "refMismatch"
    THEN PolicyRequirementError(<<"Signature for identity ", "ref", " is not accepted">>)
    ELSE NoErr

\* The closure passed as ValidateSignedDockerManifestDigest
ValidateSignedDockerManifestDigest(s) ==
    IF s.claims = "manifestErr" THEN ManifestErr
    ELSE IF s.claims = "digestErr" THEN DigestErr
    ELSE IF s.claims = "digestMismatch"
    THEN PolicyRequirementError(<<"Signature for digest ", "dgst", " does not match">>)
    ELSE NoErr

\* internal.VerifySigstorePayload: [signature, signingKey, err].  The
\* signature must verify under one of the keys and both rules must pass; a
\* rule's error is returned as it is.
VerifySigstorePayload(publicKeys, s) ==
    LET found == \E n \in 1..Len(publicKeys) : publicKeys[n] = s.signedBy
        digest == ValidateSignedDockerManifestDigest(s)
        ref == ValidateSignedDockerReference(s)
        fail(e) == [signature |-> <<>>, signingKey |-> NilKey, err |-> e]
    IN  IF ~found THEN fail(CryptoErr)
        ELSE IF digest # NoErr THEN fail(digest)
        ELSE IF ref # NoErr THEN fail(ref)
        ELSE [signature |-> IF s.claims = "nodata" THEN <<>> ELSE <<"payload">>,
              signingKey |-> s.signedBy, err |-> NoErr]

-----------------------------------------------------------------------------
(* prSigstoreSigned.isSignatureAccepted *)

\* A plausible slip: the loop gives up at the first key that fails.
RECURSIVE rekorVerified_Break(_, _, _)
rekorVerified_Break(rekorPublicKey, s, publicKeys) ==
    IF publicKeys = <<>> THEN [keys |-> <<>>, tried |-> <<>>]
    ELSE LET k == Head(publicKeys)
             m == MarshalPublicKeyToPEM(k)
             rest == rekorVerified_Break(rekorPublicKey, s, Tail(publicKeys))
         IN  IF m.err # NoErr \/ VerifyRekorSET(rekorPublicKey, s, m.pem) # NoErr
             THEN [keys |-> <<>>, tried |-> <<k>>]
             ELSE [keys |-> <<k>> \o rest.keys, tried |-> <<k>> \o rest.tried]

\* The loop over trustRoot.publicKeys: the keys appended to publicKeys, and
\* the keys the loop came to.
RECURSIVE rekorVerified(_, _, _)
rekorVerified(rekorPublicKey, s, publicKeys) ==
    IF publicKeys = <<>> THEN [keys |-> <<>>, tried |-> <<>>]
    ELSE LET k == Head(publicKeys)
             m == MarshalPublicKeyToPEM(k)
             rest == rekorVerified(rekorPublicKey, s, Tail(publicKeys))
         IN  IF m.err # NoErr \/ VerifyRekorSET(rekorPublicKey, s, m.pem) # NoErr
             THEN [keys |-> rest.keys, tried |-> <<k>> \o rest.tried]
             ELSE [keys |-> <<k>> \o rest.keys, tried |-> <<k>> \o rest.tried]

\* case len(trustRoot.publicKeys) > 0: [publicKeys, err, tried]
directKeyCandidates(trustRoot, s) ==
    LET v == rekorVerified(trustRoot.rekorPublicKey, s, trustRoot.publicKeys)
    IN  IF trustRoot.rekorPublicKey # NilKey
        THEN IF SigstoreSETAnnotationKey \notin s.annotations
             THEN [publicKeys |-> <<>>, tried |-> <<>>,
                   err |-> MissingAnnotation(SigstoreSETAnnotationKey)]
             ELSE IF Len(v.keys) = 0
             THEN [publicKeys |-> <<>>, tried |-> v.tried,
                   err |-> Errorf(<<"No public key verified against the RekorSET">>)]
             ELSE [publicKeys |-> v.keys, tried |-> v.tried, err |-> NoErr]
        ELSE [publicKeys |-> trustRoot.publicKeys, tried |-> <<>>, err |-> NoErr]

\* A plausible slip: the intermediate chain is treated as mandatory too.
fulcioCandidates_ChainMandatory(trustRoot, s) ==
    LET v == verifyRekorFulcio(trustRoot.rekorPublicKey, trustRoot.fulcio, s)
        fail(e, called) == [publicKeys |-> <<>>, err |-> e, called |-> called]
    IN  IF trustRoot.rekorPublicKey = NilKey
        THEN fail(Errorf(<<"Internal inconsistency: Fulcio CA specified without a Rekor public key">>), FALSE)
        ELSE IF SigstoreSETAnnotationKey \notin s.annotations
        THEN fail(MissingAnnotation(SigstoreSETAnnotationKey), FALSE)
        ELSE IF SigstoreCertificateAnnotationKey \notin s.annotations
        THEN fail(MissingAnnotation(SigstoreCertificateAnnotationKey), FALSE)
        ELSE IF SigstoreIntermediateCertificateChainAnnotationKey \notin s.annotations
        THEN fail(MissingAnnotation(SigstoreIntermediateCertificateChainAnnotationKey), FALSE)
        ELSE IF v.err # NoErr THEN fail(v.err, TRUE)
        ELSE [publicKeys |-> <<v.pk>>, err |-> NoErr, called |-> TRUE]

\* case trustRoot.fulcio != nil: [publicKeys, err, called], called telling
\* whether verifyRekorFulcio was called.
fulcioCandidates(trustRoot, s) ==
    LET v == verifyRekorFulcio(trustRoot.rekorPublicKey, trustRoot.fulcio, s)
        fail(e, called) == [publicKeys |-> <<>>, err |-> e, called |-> called]
    IN  IF trustRoot.rekorPublicKey = NilKey
        THEN fail(Errorf(<<"Internal inconsistency: Fulcio CA specified without a Rekor public key">>), FALSE)
        ELSE IF SigstoreSETAnnotationKey \notin s.annotations
        THEN fail(MissingAnnotation(SigstoreSETAnnotationKey), FALSE)
        ELSE IF SigstoreCertificateAnnotationKey \notin s.annotations
        THEN fail(MissingAnnotation(SigstoreCertificateAnnotationKey), FALSE)
        ELSE IF v.err # NoErr THEN fail(v.err, TRUE)
        ELSE [publicKeys |-> <<v.pk>>, err |-> NoErr, called |-> TRUE]

\* A plausible slip: the "both" check is left out, the keys win.
switchCase_KeysWin(trustRoot) ==
    IF Len(trustRoot.publicKeys) = 0 /\ trustRoot.fulcio = <<>> THEN "neither"
    ELSE IF Len(trustRoot.publicKeys) > 0 THEN "keys"
    ELSE "fulcio"

\* The case the switch on the trust root takes.
switchCase(trustRoot) ==
    IF Len(trustRoot.publicKeys) > 0 /\ trustRoot.fulcio # <<>> THEN "both"
    ELSE IF Len(trustRoot.publicKeys) = 0 /\ trustRoot.fulcio = <<>> THEN "neither"
    ELSE IF Len(trustRoot.publicKeys) > 0 THEN "keys"
    ELSE "fulcio"

BothErr == Errorf(<<"Internal inconsistency: Both a public key and Fulcio CA specified">>)
NeitherErr == Errorf(<<"Internal inconsistency: Neither a public key nor a Fulcio CA specified">>)
NoRekorErr == Errorf(<<"Internal inconsistency: Fulcio CA specified without a Rekor public key">>)
NoKeyVerifiedErr == Errorf(<<"No public key verified against the RekorSET">>)

\* A plausible slip: the verifier's error is wrapped on the way out.
verifierError_Wrapped(err) == Wrap("verifying signature: ", err)

\* if err != nil { return rejectedRes, err } after VerifySigstorePayload
verifierError(err) == err

(***************************************************************************)
(* isSignatureAccepted after its first statement, b being what             *)
(* prepareTrustRoot returned.                                              *)
(* The result is the Go result [result, signingKey, err] and, of the call: *)
(*   trustRoot       what prepareTrustRoot returned (a pointer)            *)
(*   case            where the call went: "build" (no trust root),         *)
(*                   "annotation" (no signature annotation), or the case   *)
(*                   of the switch                                         *)
(*   tried           the keys the Rekor loop came to                       *)
(*   fulcioCalled    whether verifyRekorFulcio was called                  *)
(*   verifierCalled  whether VerifySigstorePayload was called              *)
(*   publicKeys      the keys given to VerifySigstorePayload               *)
(***************************************************************************)
routeWith(b, s) ==
    LET none == [result |-> sarRejected, signingKey |-> NilKey, err |-> NoErr,
                 trustRoot |-> b.root, case |-> "build", tried |-> <<>>,
                 fulcioCalled |-> FALSE, verifierCalled |-> FALSE,
                 publicKeys |-> <<>>]
        verify(at, publicKeys) ==
            LET v == VerifySigstorePayload(publicKeys, s)
                called == [at EXCEPT !.verifierCalled = TRUE, !.publicKeys = publicKeys]
            IN  IF Len(publicKeys) = 0
                THEN [at EXCEPT !.err = Errorf(<<"Internal inconsistency: publicKey not set before verifying sigstore payload">>)]
                ELSE IF v.err # NoErr THEN [called EXCEPT !.err = verifierError(v.err)]
                ELSE IF v.signature = <<>>
                THEN [called EXCEPT !.err = Errorf(<<"internal error: VerifySigstorePayload succeeded but returned no data">>)]
                ELSE [called EXCEPT !.result = sarAccepted, !.signingKey = v.signingKey]
    IN  IF b.err # NoErr THEN [none EXCEPT !.err = b.err]
        ELSE IF SigstoreSignatureAnnotationKey \notin s.annotations
        THEN [none EXCEPT !.case = "annotation",
                          !.err = MissingAnnotation(SigstoreSignatureAnnotationKey)]
        ELSE LET trustRoot == b.root[1]
                 c == switchCase(trustRoot)
                 at == [none EXCEPT !.case = c]
                 d == directKeyCandidates(trustRoot, s)
                 f == fulcioCandidates(trustRoot, s)
             IN  IF c = "both" THEN [at EXCEPT !.err = BothErr]
                 ELSE IF c = "neither" THEN [at EXCEPT !.err = NeitherErr]
                 ELSE IF c = "keys"
                 THEN IF d.err # NoErr THEN [at EXCEPT !.err = d.err, !.tried = d.tried]
                      ELSE verify([at EXCEPT !.tried = d.tried], d.publicKeys)
                 ELSE IF f.err # NoErr
                      THEN [at EXCEPT !.err = f.err, !.fulcioCalled = f.called]
                      ELSE verify([at EXCEPT !.fulcioCalled = f.called], f.publicKeys)

\* trustRoot, err := pr.prepareTrustRoot(), and the rest of the function.
isSignatureAccepted(p, s) ==
    CHOOSE r \in {routeWith(b, s) : b \in {prepareTrustRoot(p)}} : TRUE

-----------------------------------------------------------------------------
(* prSigstoreSigned.isRunningImageAllowed *)

\* multierr.Format: first, the messages joined by middle, last.
RECURSIVE multierrJoin(_, _)
multierrJoin(middle, errs) ==
    IF Len(errs) = 0 THEN <<>>
    ELSE IF Len(errs) = 1 THEN errs[1].text
    ELSE errs[1].text \o <<middle>> \o multierrJoin(middle, Tail(errs))

multierrFormat(first, middle, last, errs) ==
    Errorf(<<first>> \o multierrJoin(middle, errs) \o <<last>>)

\* A plausible slip: an accepted signature does not end the loop.
switchResult_NoReturn(res) ==
    IF res.result = sarAccepted \/ res.result = sarRejected
    THEN [return |-> FALSE, reason |-> res.err]
    ELSE [return |-> FALSE,
          reason |-> Errorf(<<"Internal error: Unexpected signature verification result ",
                              res.result>>)]

\* A plausible slip: a rejection is recorded under a message of the loop's own.
switchResult_OwnReason(res) ==
    IF res.result = sarAccepted THEN [return |-> TRUE, reason |-> NoErr]
    ELSE [return |-> FALSE,
          reason |-> Errorf(<<"Internal error: Unexpected signature verification result ",
                              res.result>>)]

\* The switch on res.result: whether the function returns (true, nil), and
\* the reason recorded otherwise.
switchResult(res) ==
    IF res.result = sarAccepted THEN [return |-> TRUE, reason |-> NoErr]
    ELSE IF res.result = sarRejected THEN [return |-> FALSE, reason |-> res.err]
    ELSE [return |-> FALSE,
          reason |-> Errorf(<<"Internal error: Unexpected signature verification result ",
                              res.result>>)]

NoSignatureText == "A signature was required, but no signature exists"
NoneAcceptedText == "None of the signatures were accepted, reasons: "

\* A plausible slip: the last rejection is left out of the combined message.
summaryOf_DropsLast(rej, nonSigstore, nonAttachments) ==
    IF Len(rej) = 0
    THEN IF nonSigstore = 0 /\ nonAttachments = 0
         THEN PolicyRequirementError(<<NoSignatureText>>)
         ELSE PolicyRequirementError(
                  <<NoSignatureText, " (", ToString(nonSigstore),
                    " non-sigstore signatures, ", ToString(nonAttachments),
                    " sigstore non-signature attachments)">>)
    ELSE IF Len(rej) = 1 THEN rej[1]
    ELSE PolicyRequirementError(
             multierrFormat(NoneAcceptedText, "; ", "", SubSeq(rej, 1, Len(rej) - 1)).text)

\* A plausible slip: without a rejection there is nothing to report.
summaryOf_NilWhenEmpty(rej, nonSigstore, nonAttachments) ==
    IF Len(rej) = 0 THEN NoErr
    ELSE IF Len(rej) = 1 THEN rej[1]
    ELSE PolicyRequirementError(multierrFormat(NoneAcceptedText, "; ", "", rej).text)

\* The switch on len(rejections): the error returned with false.
summaryOf(rej, nonSigstore, nonAttachments) ==
    IF Len(rej) = 0
    THEN IF nonSigstore = 0 /\ nonAttachments = 0
         THEN PolicyRequirementError(<<NoSignatureText>>)
         ELSE PolicyRequirementError(
                  <<NoSignatureText, " (", ToString(nonSigstore),
                    " non-sigstore signatures, ", ToString(nonAttachments),
                    " sigstore non-signature attachments)">>)
    ELSE IF Len(rej) = 1 THEN rej[1]
    ELSE PolicyRequirementError(multierrFormat(NoneAcceptedText, "; ", "", rej).text)

\* sigs, err := image.UntrustedSignatures(ctx)
UntrustedSignatures ==
    /\ pc = "start"
    /\ IF image.err # NoErr
       THEN /\ ret' = [allowed |-> FALSE, err |-> image.err]
            /\ pc' = "done"
            /\ UNCHANGED <<sigs, i>>
       ELSE /\ sigs' = image.sigs
            /\ i' = 1
            /\ pc' = "loop"
            /\ UNCHANGED ret
    /\ UNCHANGED <<pr, image, rejections, foundNonSigstoreSignatures,
                   foundSigstoreNonAttachments, routed, tr, sig, lastRes>>

\* One iteration of the loop over sigs.
LoopSignature ==
    /\ pc = "loop"
    /\ i <= Len(sigs)
    /\ IF sigs[i].kind # "sigstore"
       THEN /\ foundNonSigstoreSignatures' = foundNonSigstoreSignatures + 1
            /\ i' = i + 1
            /\ UNCHANGED <<pc, rejections, foundSigstoreNonAttachments, routed, ret>>
       ELSE IF sigs[i].mime # SigstoreSignatureMIMEType
       THEN /\ foundSigstoreNonAttachments' = foundSigstoreNonAttachments + 1
            /\ i' = i + 1
            /\ UNCHANGED <<pc, rejections, foundNonSigstoreSignatures, routed, ret>>
       ELSE \E res \in {isSignatureAccepted(pr, sigs[i])} :
            \E sw \in {switchResult(res)} :
               /\ routed' = Append(routed, [pos |-> i, result |-> res.result,
                                            err |-> res.err])
               /\ IF sw.return
                  THEN /\ ret' = [allowed |-> TRUE, err |-> NoErr]
                       /\ pc' = "done"
                       /\ UNCHANGED <<i, rejections>>
                  ELSE /\ rejections' = Append(rejections, sw.reason)
                       /\ i' = i + 1
                       /\ UNCHANGED <<pc, ret>>
               /\ UNCHANGED <<foundNonSigstoreSignatures, foundSigstoreNonAttachments>>
    /\ UNCHANGED <<pr, image, sigs, tr, sig, lastRes>>

\* After the loop: return false, summary.
Summary ==
    /\ pc = "loop"
    /\ i > Len(sigs)
    /\ ret' = [allowed |-> FALSE,
               err |-> summaryOf(rejections, foundNonSigstoreSignatures,
                                 foundSigstoreNonAttachments)]
    /\ pc' = "done"
    /\ UNCHANGED <<pr, image, sigs, i, rejections, foundNonSigstoreSignatures,
                   foundSigstoreNonAttachments, routed, tr, sig, lastRes>>

-----------------------------------------------------------------------------
(* Inputs *)

AllAnnotations == AnnotationKeys

FulcioConfig ==
    [CAPath |-> "ca.pem", CAData |-> NilData, OIDCIssuer |-> "iss", SubjectEmail |-> "sub"]

\* The policy requirements given to the builder.
BuildPolicies ==
    [KeyPath : {"", "k1.pub", "noent.pub"},
     KeyPaths : SeqUpTo({"k1.pub", "k2.pub", "bad.pem"}, MaxKeys),
     KeyData : {NilData, "", "PEM:k1"},
     KeyDatas : SeqUpTo({"PEM:k1", "PEM:k2", "garbage"}, MaxKeys),
     Fulcio : {<<>>} \cup
              {<<f>> : f \in [CAPath : {"", "ca.pem"},
                              CAData : {NilData, "PEM:ca", "garbage"},
                              OIDCIssuer : {"iss"},
                              SubjectEmail : {"sub", ""}]},
     RekorPublicKeyPath : {"", "rekor.pub"},
     RekorPublicKeyData : {NilData, "PEM:rk", "PEM:rsa"}]

\* The policy requirements given to the router.
RoutePolicies ==
    [KeyPath : {""},
     KeyPaths : SeqUpTo({"k1.pub", "k2.pub"}, MaxKeys),
     KeyData : {NilData},
     KeyDatas : {<<>>},
     Fulcio : {<<>>, <<FulcioConfig>>},
     RekorPublicKeyPath : {"", "rekor.pub"},
     RekorPublicKeyData : {NilData, "PEM:rsa"}]

\* The signatures given to the router: those of a key pair, and those of a
\* certificate.
RouteSigs ==
    [kind : {"sigstore"}, mime : {SigstoreSignatureMIMEType},
     annotations : SUBSET {SigstoreSignatureAnnotationKey, SigstoreSETAnnotationKey},
     rekorOK : SUBSET {"k1", "k2"},
     certKey : {NilKey},
     signedBy : {"none", "k1", "k2"},
     claims : ClaimsOutcomes]
    \cup
    [kind : {"sigstore"}, mime : {SigstoreSignatureMIMEType},
     annotations : SUBSET AnnotationKeys,
     rekorOK : {{}},
     certKey : {NilKey, "kc"},
     signedBy : {"none", "kc"},
     claims : ClaimsOutcomes]

\* The policy requirements given to isRunningImageAllowed.
AggPolicies ==
    [KeyPath : {"", "k1.pub", "noent.pub"},
     KeyPaths : {<<>>},
     KeyData : {NilData},
     KeyDatas : {<<>>},
     Fulcio : {<<>>, <<FulcioConfig>>},
     RekorPublicKeyPath : {"", "rekor.pub"},
     RekorPublicKeyData : {NilData}]

\* A signature of key k1, logged, with a certificate for k1.
GoodSig ==
    [kind |-> "sigstore", mime |-> SigstoreSignatureMIMEType,
     annotations |-> AllAnnotations, rekorOK |-> {"k1"}, certKey |-> "k1",
     signedBy |-> "k1", claims |-> "ok"]

\* The signatures attached to an image.
AggSigs ==
    {GoodSig,
     [GoodSig EXCEPT !.kind = "other"],
     [GoodSig EXCEPT !.mime = "application/vnd.dev.sigstore.bundle+json"],
     [GoodSig EXCEPT !.claims = "manifestErr"],
     [GoodSig EXCEPT !.claims = "refMismatch"],
     [GoodSig EXCEPT !.annotations = AllAnnotations \ {SigstoreSignatureAnnotationKey}],
     [GoodSig EXCEPT !.signedBy = "none"]}

RetrievalErr == [type |-> "registry", text |-> <<"reading signatures failed">>]

\* What image.UntrustedSignatures returns.
Images ==
    {[sigs |-> l, err |-> NoErr] : l \in SeqUpTo(AggSigs, MaxSigs)}
    \cup {[sigs |-> <<>>, err |-> RetrievalErr]}

-----------------------------------------------------------------------------
(* Specifications *)

NoRet == [allowed |-> FALSE, err |-> NoErr]
NoBuild == [root |-> NilTrustRoot, err |-> NoErr, loads |-> <<>>]
NoSig == [GoodSig EXCEPT !.kind = "none"]
NoRes ==
    [result |-> sarUnknown, signingKey |-> NilKey, err |-> NoErr,
     trustRoot |-> NilTrustRoot, case |-> "none", tried |-> <<>>,
     fulcioCalled |-> FALSE, verifierCalled |-> FALSE, publicKeys |-> <<>>]

InitRest ==
    /\ sigs = <<>>
    /\ i = 0
    /\ rejections = <<>>
    /\ foundNonSigstoreSignatures = 0
    /\ foundSigstoreNonAttachments = 0
    /\ routed = <<>>
    /\ ret = NoRet
    /\ tr = NoBuild
    /\ sig = NoSig
    /\ lastRes = NoRes

\* isRunningImageAllowed on an image
Init ==
    /\ pr \in AggPolicies
    /\ image \in Images
    /\ pc = "start"
    /\ InitRest

Next == UntrustedSignatures \/ LoopSignature \/ Summary

Spec == Init /\ [][Next]_vars

\* prepareTrustRoot on a policy requirement
InitBuild ==
    /\ pr \in BuildPolicies
    /\ image = [sigs |-> <<>>, err |-> NoErr]
    /\ pc = "build"
    /\ InitRest

Build ==
    /\ pc = "build"
    /\ tr' = prepareTrustRoot(pr)
    /\ pc' = "built"
    /\ UNCHANGED <<pr, image, sigs, i, rejections, foundNonSigstoreSignatures,
                   foundSigstoreNonAttachments, routed, ret, sig, lastRes>>

NextBuild == Build

SpecBuild == InitBuild /\ [][NextBuild]_vars

\* isSignatureAccepted on a policy requirement and a signature
InitRoute ==
    /\ pr \in RoutePolicies
    /\ image = [sigs |-> <<>>, err |-> NoErr]
    /\ pc = "route"
    /\ InitRest

Route ==
    /\ pc = "route"
    /\ \E s \in RouteSigs :
          /\ sig' = s
          /\ lastRes' = isSignatureAccepted(pr, s)
    /\ pc' = "routed"
    /\ UNCHANGED <<pr, image, sigs, i, rejections, foundNonSigstoreSignatures,
                   foundSigstoreNonAttachments, routed, ret, tr>>

NextRoute == Route

SpecRoute == InitRoute /\ [][NextRoute]_vars

-----------------------------------------------------------------------------
(* Properties of isRunningImageAllowed (specification Spec) *)

\* A signature the loop hands to isSignatureAccepted.
Routable(s) == s.kind = "sigstore" /\ s.mime = SigstoreSignatureMIMEType

\* The positions of the retrieved list the loop has dealt with.
Processed == {j \in 1..Len(sigs) : j < i \/ (j = i /\ pc = "done" /\ ret.allowed)}

RoutedPositions == {routed[k].pos : k \in 1..Len(routed)}

\* C1: the signatures are routed in retrieval order, none skipped, and once
\* isSignatureAccepted has accepted the signature at some position the call
\* has returned (true, nil) and that call is the last one ever made: no
\* signature at a later position is routed.
C1_FirstAcceptanceWins ==
    /\ \A k \in 1..Len(routed) :
          /\ k > 1 => routed[k - 1].pos < routed[k].pos
          /\ routed[k].result = sarAccepted =>
                /\ k = Len(routed)
                /\ pc = "done"
                /\ ret = [allowed |-> TRUE, err |-> NoErr]
                /\ i = routed[k].pos
    /\ RoutedPositions = {j \in Processed : Routable(sigs[j])}
    /\ pc = "done" /\ ret.allowed =>
          Len(routed) > 0 /\ routed[Len(routed)].result = sarAccepted

\* An acceptance that left a routable signature behind it, after a rejection.
C1_Witness ==
    /\ pc = "done"
    /\ ret.allowed
    /\ Len(routed) >= 2
    /\ \E j \in 1..Len(sigs) : j > i /\ Routable(sigs[j])

\* C2: the call returns (true, nil) exactly when the retrieved list holds, at
\* any position, a sigstore signature of the signature MIME type that
\* isSignatureAccepted accepts; otherwise it returns false with a non-nil error.
C2_AdmissionIffAccepted ==
    pc = "done" =>
        /\ (ret.allowed /\ ret.err = NoErr) <=>
               \E j \in 1..Len(image.sigs) :
                   /\ Routable(image.sigs[j])
                   /\ isSignatureAccepted(pr, image.sigs[j]).result = sarAccepted
        /\ ~(ret.allowed /\ ret.err = NoErr) => (~ret.allowed /\ ret.err # NoErr)

\* An admission with a skipped signature and a rejected one before the accepted one.
C2_Witness ==
    /\ pc = "done"
    /\ ret.allowed
    /\ Len(rejections) >= 1
    /\ foundNonSigstoreSignatures + foundSigstoreNonAttachments >= 1

RECURSIVE ConcatTexts(_)
ConcatTexts(errs) ==
    IF errs = <<>> THEN <<>> ELSE Head(errs).text \o ConcatTexts(Tail(errs))

IsSeparator(fragment) == fragment \in {"; ", ""}

\* C3: when nothing is accepted the error is decided by the rejections and
\* the two counters: the plain message, the message with both counts, the
\* single rejection itself, or the header followed by every reason once, in
\* retrieval order.  The rejections are the errors of the routable
\* signatures, in order; the others only count.
C3_Summary ==
    (pc = "done" /\ ~ret.allowed /\ image.err = NoErr) =>
        LET R == SelectSeq(sigs, Routable)
            rs == [k \in 1..Len(R) |-> isSignatureAccepted(pr, R[k]).err]
            n1 == Cardinality({j \in 1..Len(sigs) : sigs[j].kind # "sigstore"})
            n2 == Cardinality({j \in 1..Len(sigs) :
                                  /\ sigs[j].kind = "sigstore"
                                  /\ sigs[j].mime # SigstoreSignatureMIMEType})
        IN  /\ rejections = rs
            /\ foundNonSigstoreSignatures = n1
            /\ foundSigstoreNonAttachments = n2
            /\ (Len(rs) = 0 /\ n1 = 0 /\ n2 = 0) =>
                   ret.err = PolicyRequirementError(<<NoSignatureText>>)
            /\ (Len(rs) = 0 /\ (n1 > 0 \/ n2 > 0)) =>
                   ret.err = PolicyRequirementError(
                                 <<NoSignatureText, " (", ToString(n1),
                                   " non-sigstore signatures, ", ToString(n2),
                                   " sigstore non-signature attachments)">>)
            /\ Len(rs) = 1 => ret.err = rs[1]
            /\ Len(rs) >= 2 =>
                   /\ ret.err.type = "PolicyRequirementError"
                   /\ Head(ret.err.text) = NoneAcceptedText
                   /\ SelectSeq(Tail(ret.err.text), LAMBDA x : ~IsSeparator(x))
                          = ConcatTexts(rs)

\* Three rejections for three different reasons.
C3_Witness ==
    /\ pc = "done"
    /\ ~ret.allowed
    /\ Len(rejections) = 3
    /\ Cardinality({rejections[k] : k \in 1..3}) = 3

\* The policy requirement's trust root cannot be built.
BuildFails == prepareTrustRoot(pr).err # NoErr

\* isSignatureAccepted fails on the signature at position j with an error of
\* the builder or with an internal inconsistency.
FatalAt(j) ==
    LET r == isSignatureAccepted(pr, sigs[j])
    IN  \/ r.case \in {"build", "both", "neither"}
        \/ r.err = NoRekorErr

\* C4 as stated, for the signatures that are routed: after a build error or
\* an internal inconsistency no later signature is routed, and the call
\* returns false with that error.
C4_FatalAborts ==
    \A k \in 1..Len(routed) :
        FatalAt(routed[k].pos) =>
            /\ k = Len(routed)
            /\ pc = "done" => ret = [allowed |-> FALSE, err |-> routed[k].err]

\* C4, amended: a build error or an internal inconsistency comes back from
\* isSignatureAccepted as sarRejected with the error, and the loop treats it
\* as any rejection: it records the error as the reason and goes on, so every
\* routable signature is routed.  Under a policy whose trust root cannot be
\* built the image is denied; the build error is returned as it is only when
\* exactly one signature was routed, inside the combined message when several
\* were, and not at all when none was (then "no signature exists").
C4_FatalIsRejection ==
    /\ \A k \in 1..Len(routed) :
          FatalAt(routed[k].pos) =>
              /\ routed[k].result = sarRejected
              /\ routed[k].err # NoErr
              /\ Len(rejections) >= k
              /\ rejections[k] = routed[k].err
              /\ pc # "done" => i > routed[k].pos
    /\ (pc = "done" /\ image.err = NoErr /\ ~ret.allowed) =>
           RoutedPositions = {j \in 1..Len(sigs) : Routable(sigs[j])}
    /\ (pc = "done" /\ image.err = NoErr /\ BuildFails) =>
           /\ ~ret.allowed
           /\ \A k \in 1..Len(routed) : routed[k].err = prepareTrustRoot(pr).err
           /\ Len(routed) = 0 => Head(ret.err.text) = NoSignatureText
           /\ Len(routed) = 1 => ret.err = prepareTrustRoot(pr).err
           /\ Len(routed) >= 2 =>
                  /\ ret.err.type = "PolicyRequirementError"
                  /\ ret.err # prepareTrustRoot(pr).err

\* The trust root could not be built, and two signatures were routed all the same.
C4_Witness ==
    /\ pc = "done"
    /\ BuildFails
    /\ Len(routed) >= 2
    /\ FatalAt(routed[1].pos)

\* The collaborator error that evaluating s runs into, NoErr if none: a
\* failed read of key material, or a failed manifest retrieval or digest
\* match in the digest rule.
CollaboratorErr(s) ==
    LET b == prepareTrustRoot(pr)
        r == isSignatureAccepted(pr, s)
    IN  IF b.err.type = "PathError" THEN b.err
        ELSE IF /\ r.verifierCalled
                /\ \E n \in 1..Len(r.publicKeys) : r.publicKeys[n] = s.signedBy
        THEN IF s.claims = "manifestErr" THEN ManifestErr
             ELSE IF s.claims = "digestErr" THEN DigestErr
             ELSE NoErr
        ELSE NoErr

\* C5 as stated: a collaborator error met with any signature is what the
\* call returns, unchanged, and nothing later turns it into an admission.
C5_CollaboratorErrorReturned ==
    \A k \in 1..Len(routed) :
        (pc = "done" /\ CollaboratorErr(sigs[routed[k].pos]) # NoErr) =>
            ret = [allowed |-> FALSE, err |-> CollaboratorErr(sigs[routed[k].pos])]

\* C5, amended: a collaborator error comes back from isSignatureAccepted
\* unchanged, as the reason of that signature's rejection, and is recorded
\* unchanged.  The call returns it as it is only when it is the only
\* rejection and nothing is accepted; with other rejections it is one of the
\* reasons of the combined PolicyRequirementError; and a later accepted
\* signature still makes the call return (true, nil).
C5_CollaboratorErrorIsRejection ==
    \A k \in 1..Len(routed) :
        LET e == CollaboratorErr(sigs[routed[k].pos])
        IN  e # NoErr =>
                /\ routed[k].result = sarRejected
                /\ routed[k].err = e
                /\ Len(rejections) >= k
                /\ rejections[k] = e
                /\ (pc = "done" /\ ~ret.allowed /\ Len(rejections) = 1) => ret.err = e
                /\ (pc = "done" /\ ~ret.allowed /\ Len(rejections) >= 2) =>
                       /\ ret.err.type = "PolicyRequirementError"
                       /\ ret.err # e
                       /\ \E n \in 1..Len(ret.err.text) :
                              SubSeq(ret.err.text, n, n + Len(e.text) - 1) = e.text
                /\ (pc = "done" /\ ret.allowed) =>
                       /\ ret.err = NoErr
                       /\ routed[Len(routed)].pos > routed[k].pos

\* A manifest retrieval failure on one signature, and an admission by a later one.
C5_Witness ==
    /\ pc = "done"
    /\ ret.allowed
    /\ \E k \in 1..Len(routed) : routed[k].err = ManifestErr

-----------------------------------------------------------------------------
(* Properties of prepareTrustRoot (specification SpecBuild) *)

\* C7 as stated: for the public keys, the CA certificates and the Rekor key,
\* data that is set (non-nil) together with a path that is set (non-empty)
\* fails the build; the loader fails when both are set and returns (nil, nil)
\* when neither is.
C7_DataAndPathFail ==
    pc = "built" =>
        /\ ((pr.KeyData # NilData \/ Len(pr.KeyDatas) > 0)
              /\ (pr.KeyPath # "" \/ Len(pr.KeyPaths) > 0)) => tr.err # NoErr
        /\ (pr.Fulcio # <<>> /\ pr.Fulcio[1].CAData # NilData /\ pr.Fulcio[1].CAPath # "")
              => tr.err # NoErr
        /\ (pr.RekorPublicKeyData # NilData /\ pr.RekorPublicKeyPath # "")
              => tr.err # NoErr
        /\ \A n \in 1..Len(tr.loads) :
              LET c == tr.loads[n]
              IN  /\ (c.data # NilData /\ c.path # "") =>
                         (c.res.err # NoErr /\ c.res.data = NilData)
                  /\ (c.data = NilData /\ c.path = "") =>
                         c.res = [data |-> NilData, err |-> NoErr]

\* C7, amended: as stated, except that for the public keys the data counts
\* as set only when a blob is actually there: KeyData non-empty, or KeyDatas
\* with an element.  A KeyData that is non-nil but empty is taken as not set,
\* and the build goes on with the paths.
C7_DataAndPathFailUnlessEmpty ==
    pc = "built" =>
        /\ ((pr.KeyData \notin {NilData, ""} \/ Len(pr.KeyDatas) > 0)
              /\ (pr.KeyPath # "" \/ Len(pr.KeyPaths) > 0)) => tr.err # NoErr
        /\ (pr.Fulcio # <<>> /\ pr.Fulcio[1].CAData # NilData /\ pr.Fulcio[1].CAPath # "")
              => tr.err # NoErr
        /\ (pr.RekorPublicKeyData # NilData /\ pr.RekorPublicKeyPath # "")
              => tr.err # NoErr
        /\ \A n \in 1..Len(tr.loads) :
              LET c == tr.loads[n]
              IN  /\ (c.data # NilData /\ c.path # "") =>
                         (c.res.err # NoErr /\ c.res.data = NilData)
                  /\ (c.data = NilData /\ c.path = "") =>
                         c.res = [data |-> NilData, err |-> NoErr]

\* The build got as far as the Rekor key, which has both data and a path.
C7_Witness ==
    /\ pc = "built"
    /\ tr.err # NoErr
    /\ \E n \in 1..Len(tr.loads) :
          /\ tr.loads[n].prefix = "rekorPublicKey"
          /\ tr.loads[n].data # NilData
          /\ tr.loads[n].path # ""

\* The key a path or a data blob stands for, and whether it can be had.
KeyOfPath(path) == UnmarshalPEMToPublicKey(ReadFile(path).data).key
PathFails(path) ==
    ReadFile(path).err # NoErr \/ UnmarshalPEMToPublicKey(ReadFile(path).data).err # NoErr
KeyOfData(data) == UnmarshalPEMToPublicKey(data).key
DataFails(data) == UnmarshalPEMToPublicKey(data).err # NoErr

KeysOf(paths, datas) ==
    [n \in 1..Len(paths) |-> KeyOfPath(paths[n])]
    \o [n \in 1..Len(datas) |-> KeyOfData(datas[n])]

\* C8 as stated: after a successful build the key list holds one key for the
\* singular path together with every path of the list, or for the singular
\* data together with every blob of the list, in order.
C8_SingularAndPluralMerged ==
    (pc = "built" /\ tr.err = NoErr) =>
        LET paths == (IF pr.KeyPath # "" THEN <<pr.KeyPath>> ELSE <<>>) \o pr.KeyPaths
            datas == (IF pr.KeyData \notin {NilData, ""} THEN <<pr.KeyData>> ELSE <<>>)
                     \o pr.KeyDatas
        IN  tr.root[1].publicKeys = KeysOf(paths, datas)

\* C8, amended: the singular source replaces the plural one.  The paths used
\* are KeyPath alone when it is set and KeyPaths otherwise, the data blobs
\* KeyData alone when it is non-empty and KeyDatas otherwise; a list whose
\* singular counterpart is set is ignored.  After a successful build the key
\* list holds one key for every source used, in order, and a source used that
\* does not load or parse fails the build.
C8_SingularReplacesPlural ==
    pc = "built" =>
        LET paths == IF pr.KeyPath # "" THEN <<pr.KeyPath>> ELSE pr.KeyPaths
            datas == IF pr.KeyData \notin {NilData, ""} THEN <<pr.KeyData>> ELSE pr.KeyDatas
        IN  /\ tr.err = NoErr => tr.root[1].publicKeys = KeysOf(paths, datas)
            /\ (\/ \E n \in 1..Len(paths) : PathFails(paths[n])
                \/ \E n \in 1..Len(datas) : DataFails(datas[n])) => tr.err # NoErr

\* A successful build that left a configured list of two paths unused.
C8_Witness ==
    /\ pc = "built"
    /\ tr.err = NoErr
    /\ pr.KeyPath # ""
    /\ Len(pr.KeyPaths) = 2
    /\ Len(tr.root[1].publicKeys) = 1

-----------------------------------------------------------------------------
(* Properties of isSignatureAccepted (specification SpecRoute) *)

WellFormed(root) ==
    /\ (Len(root.publicKeys) > 0) # (root.fulcio # <<>>)
    /\ root.fulcio # <<>> => root.rekorPublicKey # NilKey

\* C6 as stated: a trust root that prepareTrustRoot returns without error has
\* exactly one of keys and CA, and a Rekor key when it has a CA, so that the
\* router's three internal-inconsistency branches are never taken.
C6_BuiltTrustRootWellFormed ==
    (pc = "routed" /\ lastRes.trustRoot # NilTrustRoot) =>
        /\ WellFormed(lastRes.trustRoot[1])
        /\ lastRes.err \notin {BothErr, NeitherErr, NoRekorErr}

\* C6, amended: prepareTrustRoot does not check the shape of what it builds
\* (the policy's constructor does); it returns trust roots with both keys and
\* a CA, with neither, and with a CA but no Rekor key.  The router's three
\* internal-inconsistency branches catch exactly those: a signature that has
\* its signature annotation is rejected with the branch's error before any
\* verifier is called.  So a signature is accepted only under a trust root
\* that is well-formed.
C6_MalformedTrustRootRejected ==
    (pc = "routed" /\ lastRes.trustRoot # NilTrustRoot) =>
        LET root == lastRes.trustRoot[1]
        IN  /\ lastRes.result = sarAccepted => WellFormed(root)
            /\ ~WellFormed(root) =>
                  /\ lastRes.result = sarRejected
                  /\ lastRes.tried = <<>>
                  /\ ~lastRes.fulcioCalled
                  /\ ~lastRes.verifierCalled
                  /\ SigstoreSignatureAnnotationKey \in sig.annotations =>
                        lastRes.err =
                            IF Len(root.publicKeys) > 0 /\ root.fulcio # <<>> THEN BothErr
                            ELSE IF Len(root.publicKeys) = 0 /\ root.fulcio = <<>>
                            THEN NeitherErr
                            ELSE NoRekorErr
            /\ (WellFormed(root) /\ SigstoreSignatureAnnotationKey \in sig.annotations) =>
                  lastRes.err \notin {BothErr, NeitherErr, NoRekorErr}

\* A trust root with both keys and a CA, built without error, and the
\* signature rejected for it.
C6_Witness ==
    /\ pc = "routed"
    /\ lastRes.trustRoot # NilTrustRoot
    /\ Len(lastRes.trustRoot[1].publicKeys) > 0
    /\ lastRes.trustRoot[1].fulcio # <<>>
    /\ sig.signedBy = "k1"
    /\ lastRes.err = BothErr

\* The call is in the direct-key case of the switch.
InKeysCase ==
    /\ pc = "routed"
    /\ lastRes.trustRoot # NilTrustRoot
    /\ SigstoreSignatureAnnotationKey \in sig.annotations
    /\ Len(lastRes.trustRoot[1].publicKeys) > 0
    /\ lastRes.trustRoot[1].fulcio = <<>>

InRekorSet(k) == k \in sig.rekorOK

\* C9: in the direct-key case with a Rekor key, a signature without the SET
\* annotation is rejected for it before any key is tried; otherwise every key
\* is tried and the keys given to the payload verifier are those whose SET
\* verifies, in order; with none the signature is rejected as "No public key
\* verified" and the verifier is not called.  An accepted signature's key
\* passed the SET check.  Without a Rekor key all keys are given to the
\* verifier, with or without the SET annotation.
C9_DirectKeys ==
    InKeysCase =>
        LET root == lastRes.trustRoot[1]
            proved == SelectSeq(root.publicKeys, InRekorSet)
        IN  IF root.rekorPublicKey # NilKey
            THEN IF SigstoreSETAnnotationKey \notin sig.annotations
                 THEN /\ lastRes.result = sarRejected
                      /\ lastRes.err = MissingAnnotation(SigstoreSETAnnotationKey)
                      /\ lastRes.tried = <<>>
                      /\ ~lastRes.verifierCalled
                 ELSE /\ lastRes.tried = root.publicKeys
                      /\ IF proved = <<>>
                         THEN /\ lastRes.result = sarRejected
                              /\ lastRes.err = NoKeyVerifiedErr
                              /\ ~lastRes.verifierCalled
                         ELSE /\ lastRes.verifierCalled
                              /\ lastRes.publicKeys = proved
                      /\ lastRes.result = sarAccepted => lastRes.signingKey \in sig.rekorOK
            ELSE /\ lastRes.verifierCalled
                 /\ lastRes.publicKeys = root.publicKeys
                 /\ lastRes.tried = <<>>

\* Two keys, the SET verifies for the second only, and the signature is
\* accepted under it.
C9_Witness ==
    /\ InKeysCase
    /\ lastRes.trustRoot[1].rekorPublicKey # NilKey
    /\ lastRes.trustRoot[1].publicKeys = <<"k1", "k2">>
    /\ sig.rekorOK = {"k2"}
    /\ lastRes.result = sarAccepted
    /\ lastRes.signingKey = "k2"

\* The call is in the CA case of the switch.
InFulcioCase ==
    /\ pc = "routed"
    /\ lastRes.trustRoot # NilTrustRoot
    /\ SigstoreSignatureAnnotationKey \in sig.annotations
    /\ Len(lastRes.trustRoot[1].publicKeys) = 0
    /\ lastRes.trustRoot[1].fulcio # <<>>

\* What C10 says of a call in the CA case.
FulcioCaseRules ==
    /\ SigstoreSETAnnotationKey \notin sig.annotations =>
          /\ lastRes.result = sarRejected
          /\ lastRes.err = MissingAnnotation(SigstoreSETAnnotationKey)
          /\ ~lastRes.fulcioCalled
    /\ (/\ SigstoreSETAnnotationKey \in sig.annotations
        /\ SigstoreCertificateAnnotationKey \notin sig.annotations) =>
          /\ lastRes.result = sarRejected
          /\ lastRes.err = MissingAnnotation(SigstoreCertificateAnnotationKey)
          /\ ~lastRes.fulcioCalled
    /\ {SigstoreSETAnnotationKey, SigstoreCertificateAnnotationKey} \subseteq sig.annotations =>
          /\ lastRes.fulcioCalled
          /\ IF sig.certKey = NilKey
             THEN /\ lastRes.result = sarRejected
                  /\ lastRes.err = FulcioErr
                  /\ ~lastRes.verifierCalled
             ELSE /\ lastRes.verifierCalled
                  /\ lastRes.publicKeys = <<sig.certKey>>

\* C10 as stated: in the CA case a signature without the SET annotation, or
\* else without the certificate annotation, is rejected for that annotation;
\* the chain annotation may be missing; a failed verification of the
\* certificate rejects the signature without the payload verifier being
\* called; otherwise the verifier gets the certificate's key alone.
C10_FulcioCase ==
    InFulcioCase => FulcioCaseRules

\* C10, amended: as stated when the trust root has a Rekor key.  When it has
\* none, the signature is rejected as an internal inconsistency ("Fulcio CA
\* specified without a Rekor public key") whatever its annotations, and no
\* verifier is called.
C10_FulcioCaseWithRekorKey ==
    InFulcioCase =>
        IF lastRes.trustRoot[1].rekorPublicKey # NilKey
        THEN FulcioCaseRules
        ELSE /\ lastRes.result = sarRejected
             /\ lastRes.err = NoRekorErr
             /\ ~lastRes.fulcioCalled
             /\ ~lastRes.verifierCalled

\* A signature with a certificate and no chain, accepted under the
\* certificate's key.
C10_Witness ==
    /\ InFulcioCase
    /\ lastRes.trustRoot[1].rekorPublicKey # NilKey
    /\ SigstoreIntermediateCertificateChainAnnotationKey \notin sig.annotations
    /\ lastRes.result = sarAccepted
    /\ lastRes.signingKey = "kc"

=============================================================================
